---------------------------- MODULE Spec2Model ----------------------------
(***************************************************************************)
(* A model of src/src/main.js: the per-frame step animate() of the driving *)
(* demo (thrust, drift blend, turning, traction, boundary collision,       *)
(* impact effects, tire smoke, camera), its smoke-particle pool and its    *)
(* keyboard and mouse listeners.                                           *)
(*                                                                         *)
(* Numbers.  The program computes in IEEE doubles.  The model computes in  *)
(* fixed point: every length, speed, angle (radians) and lifetime is an    *)
(* integer count of 1/Unit.  A product is truncated toward zero (Scale),   *)
(* so that mirrored inputs give mirrored results, as they do in doubles.   *)
(* velocity.y and position.y are 0 in every state of the program (no       *)
(* statement writes them), so a ground vector is a record [x, z].          *)
(***************************************************************************)
EXTENDS Integers, Sequences, FiniteSets

Unit == 10000

----------------------------------------------------------------------------
(* Arithmetic of the Number type, in fixed point.                          *)

Abs(a) == IF a < 0 THEN -a ELSE a

\* a / b truncated toward zero (b > 0)
Div(a, b) == IF a >= 0 THEN a \div b ELSE -((-a) \div b)

\* a * (num / den), truncated toward zero
Scale(a, num, den) == Div(a * num, den)

Min(a, b) == IF a < b THEN a ELSE b

Max(a, b) == IF a > b THEN a ELSE b

RECURSIVE SqrtIter(_, _, _)
SqrtIter(n, lo, hi) ==
    IF lo >= hi THEN lo
    ELSE LET mid == (lo + hi + 1) \div 2
         IN IF mid * mid <= n THEN SqrtIter(n, mid, hi)
                              ELSE SqrtIter(n, lo, mid - 1)

\* Math.sqrt, rounded down: the largest r with r * r <= n
Sqrt(n) == SqrtIter(n, 0, 46340)

Pi == 31416

HalfPi == 15708

TwoPi == 62832

\* a / b rounded to the nearest integer, halves away from zero (b > 0)
RoundDiv(a, b) ==
    IF a >= 0 THEN (2 * a + b) \div (2 * b) ELSE -((2 * (-a) + b) \div (2 * b))

\* one factor of the Taylor series of the sine in Horner form:
\* 1 - (x2 / k) * p
SinFactor(x2, p, k) == Unit - RoundDiv(x2 * p, Unit * k)

\* x - x^3/3! + x^5/5! - x^7/7! + x^9/9! - x^11/11!, where x2 is x * x
SinPolynomial(x, x2) ==
    RoundDiv(x * SinFactor(x2, SinFactor(x2, SinFactor(x2, SinFactor(x2,
                 SinFactor(x2, Unit, 110), 72), 42), 20), 6), Unit)

\* the sine of x on [-HalfPi, HalfPi], in units of 1/Unit, within [-1, 1]
SinSeries(x) == Max(-Unit, Min(Unit, SinPolynomial(x, RoundDiv(x * x, Unit))))

\* m in [0, TwoPi) brought into (-Pi, Pi]
Wrap(m) == IF m > Pi THEN m - TwoPi ELSE m

\* r in (-Pi, Pi] reflected into [-HalfPi, HalfPi]: sin(Pi - r) = sin(r)
Fold(r) == IF r > HalfPi THEN Pi - r ELSE IF r < -HalfPi THEN -Pi - r ELSE r

\* Math.sin of an angle in units of 1/Unit radians
Sin(a) == SinSeries(Fold(Wrap(a % TwoPi)))

\* Math.cos
Cos(a) == Sin(a + HalfPi)

----------------------------------------------------------------------------
(* Tuning values of the program, in units of 1/Unit.                       *)

BOUNDARY == [minX |-> -500 * Unit, maxX |-> 500 * Unit,
             minZ |-> -500 * Unit, maxZ |-> 500 * Unit]

carSpeed == 300

rotationSpeed == 300

driftFactor == 8000

driftDecay == 9800

traction == 9500

collisionRebound == 5000

carRadius == 15000

\* the speed above which an impact has effects and a drift makes smoke
SpeedThreshold == 500

\* the extra slow-down after an impact: multiplyScalar(0.5)
ImpactDamping == 5000

ImpactParticles == 10

SmokeEvery == 2

MAX_PARTICLES == 100

InitialLifetime == 10000

DecayBase == 200

DecaySpread == 300

ScaleGrowth == 300

cameraDistance == 50000

InitialCameraHeight == 30000

MinCameraHeight == 10000

MaxCameraHeight == 100000

FollowDistance == 5

FollowHeight == 30000

LerpFactor == 1000

\* radians per pixel of a horizontal drag, and height per pixel of a vertical one
AnglePerPixel == 100

HeightPerPixel == 500

RightButton == 2

----------------------------------------------------------------------------
(* THREE.Vector3 on the ground plane.                                      *)

Vec(a, b) == [x |-> a, z |-> b]

ZeroVec == Vec(0, 0)

Add(u, v) == Vec(u.x + v.x, u.z + v.z)

\* Vector3.multiplyScalar(num / den)
MultiplyScalar(v, num, den) == Vec(Scale(v.x, num, den), Scale(v.z, num, den))

\* Vector3.addScaledVector(w, s / Unit)
AddScaledVector(v, w, s) == Add(v, MultiplyScalar(w, s, Unit))

LengthSq(v) == v.x * v.x + v.z * v.z

\* Vector3.length()
Length(v) == Sqrt(LengthSq(v))

\* v.length() > t, decided exactly
LongerThan(v, t) == LengthSq(v) > t * t

\* Vector3.divideScalar(len / Unit)
DivideScalar(v, len) == Vec(Div(v.x * Unit, len), Div(v.z * Unit, len))

\* length() || 1
OrOne(len) == IF len = 0 THEN 1 ELSE len

\* Vector3.normalize(): divideScalar(length() || 1)
Normalize(v) == DivideScalar(v, OrOne(Length(v)))

\* (0, 0, -1) rotated by the car's quaternion: rotation by yaw about Y
Direction(yaw) == Vec(-Sin(yaw), -Cos(yaw))

\* (0, 0, 1) rotated by the car's quaternion
BehindCar(yaw) == Vec(Sin(yaw), Cos(yaw))

----------------------------------------------------------------------------
(* animate(), first half: the vehicle.                                     *)

BlendedDirOfVelocity(vel, dir) == Normalize(vel)

\* the direction of the drift thrust: current heading of the velocity
\* blended with the car's forward direction
BlendedDir(vel, dir) ==
    Normalize(AddScaledVector(AddScaledVector(ZeroVec, Normalize(vel), driftFactor),
                              dir, Unit - driftFactor))

ForwardThrustStraight(vel, dir, drifting) == MultiplyScalar(dir, carSpeed, Unit)

\* the vector that the forward key adds to the velocity
ForwardThrust(vel, dir, drifting) ==
    IF drifting THEN MultiplyScalar(BlendedDir(vel, dir), carSpeed, Unit)
                ELSE MultiplyScalar(dir, carSpeed, Unit)

\* velocity after the forward and backward keys
Thrust(vel, dir, m, drifting) ==
    LET v1 == IF m.forward THEN Add(vel, ForwardThrust(vel, dir, drifting)) ELSE vel
    IN IF m.backward THEN AddScaledVector(v1, dir, -carSpeed) ELSE v1

TurnRate(drifting) == IF drifting THEN Scale(rotationSpeed, 15, 10) ELSE rotationSpeed

\* rotation.y after the left and right keys
Turn(yaw, m, drifting) ==
    LET y1 == IF m.left THEN yaw + TurnRate(drifting) ELSE yaw
    IN IF m.right THEN y1 - TurnRate(drifting) ELSE y1

TractionIgnoringDrift(vel, drifting) == MultiplyScalar(vel, traction, Unit)

\* velocity after traction
Traction(vel, drifting) ==
    IF drifting THEN MultiplyScalar(vel, driftDecay, Unit)
                ELSE MultiplyScalar(vel, traction, Unit)

HitMaxOnly(c, lo, hi) == IF c > hi - carRadius THEN "max" ELSE "none"

\* which edge the tentative coordinate c crosses
Hit(c, lo, hi) ==
    IF c < lo + carRadius THEN "min"
    ELSE IF c > hi - carRadius THEN "max"
    ELSE "none"

ReboundUndamped(v) == -v

\* one axis of the boundary response: the velocity component is reflected
\* and damped
Rebound(v) == Scale(-v, collisionRebound, Unit)

\* ... and the coordinate is put on the edge
ClampTo(hit, c, lo, hi) ==
    IF hit = "min" THEN lo + carRadius
    ELSE IF hit = "max" THEN hi - carRadius
    ELSE c

CollideSliding(pos, vel) ==
    LET nextPosition == Add(pos, vel)
        hitX == Hit(nextPosition.x, BOUNDARY.minX, BOUNDARY.maxX)
        hitZ == Hit(nextPosition.z, BOUNDARY.minZ, BOUNDARY.maxZ)
        v == Vec(IF hitX # "none" THEN Rebound(vel.x) ELSE vel.x,
                 IF hitZ # "none" THEN Rebound(vel.z) ELSE vel.z)
    IN [nextPosition |-> nextPosition, hitX |-> hitX, hitZ |-> hitZ,
        collision |-> hitX # "none" \/ hitZ # "none",
        velocity |-> v,
        position |-> Vec(ClampTo(hitX, pos.x + v.x, BOUNDARY.minX, BOUNDARY.maxX),
                         ClampTo(hitZ, pos.z + v.z, BOUNDARY.minZ, BOUNDARY.maxZ))]

\* collision detection and response; the position is advanced by the
\* velocity only when no axis collides
Collide(pos, vel) ==
    LET nextPosition == Add(pos, vel)
        hitX == Hit(nextPosition.x, BOUNDARY.minX, BOUNDARY.maxX)
        hitZ == Hit(nextPosition.z, BOUNDARY.minZ, BOUNDARY.maxZ)
        collision == hitX # "none" \/ hitZ # "none"
        v == Vec(IF hitX # "none" THEN Rebound(vel.x) ELSE vel.x,
                 IF hitZ # "none" THEN Rebound(vel.z) ELSE vel.z)
        p == Vec(ClampTo(hitX, pos.x, BOUNDARY.minX, BOUNDARY.maxX),
                 ClampTo(hitZ, pos.z, BOUNDARY.minZ, BOUNDARY.maxZ))
    IN [nextPosition |-> nextPosition, hitX |-> hitX, hitZ |-> hitZ,
        collision |-> collision,
        velocity |-> v,
        position |-> IF collision THEN p ELSE Add(pos, v)]

ImpactOnAnyHit(collision, vel) == collision

\* whether a collision has effects: sound, particles, extra damping
Impact(collision, vel) == collision /\ LongerThan(vel, SpeedThreshold)

\* whether this tick counts towards tire smoke
SmokeCondition(drifting, m, vel) ==
    drifting /\ (m.forward \/ LongerThan(vel, SpeedThreshold))

----------------------------------------------------------------------------
(* Math.random().  The program draws from the host's generator; a run of   *)
(* the model is given the stream of its results in advance: a pattern,     *)
(* repeated for ever, of values in 0 .. Unit - 1 (units of 1/Unit).        *)

Draw(rs, k) == rs.pattern[((rs.pos - 1 + k) % Len(rs.pattern)) + 1]

Advance(rs, k) == [rs EXCEPT !.pos = ((rs.pos - 1 + k) % Len(rs.pattern)) + 1]

DecayWithoutBase(r) == Div(r * DecaySpread + Unit \div 2, Unit)

\* 0.02 + Math.random() * 0.03, to the nearest unit
Decay(r) == DecayBase + Div(r * DecaySpread + Unit \div 2, Unit)

\* the offset behind the wheels, in the car's frame:
\* ((random - 0.5) * 0.5, 0.1, (random - 0.5) * 0.3)
Offset(r1, r2) == Vec(Scale(r1 - Unit \div 2, 5000, Unit), Scale(r2 - Unit \div 2, 3000, Unit))

\* v rotated about Y by the angle of sine sin and cosine cos
Rotate(v, sin, cos) ==
    Vec(Scale(v.x, cos, Unit) + Scale(v.z, sin, Unit),
        Scale(v.z, cos, Unit) - Scale(v.x, sin, Unit))

\* Vector3.applyQuaternion(carObject.quaternion): rotation by yaw about Y
ApplyQuaternion(v, yaw) == Rotate(v, Sin(yaw), Cos(yaw))

----------------------------------------------------------------------------
(* The smoke-particle pool.  A pool state w carries the array              *)
(* smokeParticles, the random stream, and two history values: the number   *)
(* of particles spawned so far (a particle's id is its spawn number) and   *)
(* the log of every spawn (its decay, the number of updates done when it   *)
(* was spawned, whether the capacity bound has evicted it).                *)

\* Array.prototype.pop(): the array without its last element
Pop(arr) == SubSeq(arr, 1, Len(arr) - 1)

\* Array.prototype.shift(): the array without its first element
Shift(arr) == Tail(arr)

\* Array.prototype.splice(i, 1): the array without its i-th element (from 1)
Splice(arr, i) == SubSeq(arr, 1, i - 1) \o SubSeq(arr, i + 1, Len(arr))

\* the particles that stay after push(particle)
LimitParticles(arr) == IF Len(arr) > MAX_PARTICLES THEN Shift(arr) ELSE arr

\* the ids of the particles of an array
Ids(arr) == {arr[j].id : j \in 1..Len(arr)}

\* the particle that createSmokeParticle() makes
NewParticle(w, pos, yaw) ==
    [id |-> w.spawned + 1,
     position |-> Add(pos, ApplyQuaternion(Offset(Draw(w.random, 0), Draw(w.random, 1)), yaw)),
     lifetime |-> InitialLifetime,
     decay |-> Decay(Draw(w.random, 2)),
     scale |-> Unit]

\* the log with the spawns of the set gone marked as evicted
MarkEvicted(entries, gone) ==
    IF gone = {} THEN entries
    ELSE [i \in 1..Len(entries) |->
             IF i \in gone THEN [entries[i] EXCEPT !.evicted = TRUE] ELSE entries[i]]

\* the pool state once the array pushed has been cut to the array kept
Kept(w, pushed, kept, entry) ==
    [pool |-> kept,
     random |-> Advance(w.random, 3),
     spawned |-> w.spawned + 1,
     log |-> MarkEvicted(Append(w.log, entry), Ids(pushed) \ Ids(kept))]

\* smokeParticles.push(particle) and the limit
Push(w, pushed, entry) == Kept(w, pushed, LimitParticles(pushed), entry)

\* the pool state after createSmokeParticle() for the new particle
Spawn(w, particle, now) ==
    Push(w, Append(w.pool, particle),
         [decay |-> particle.decay, born |-> now, evicted |-> FALSE])

createSmokeParticle(w, pos, yaw, now) == Spawn(w, NewParticle(w, pos, yaw), now)

RECURSIVE SpawnParticles(_, _, _, _, _)
\* for (let i = 0; i < n; i++) createSmokeParticle()
SpawnParticles(w, n, pos, yaw, now) ==
    IF n = 0 THEN w
    ELSE SpawnParticles(createSmokeParticle(w, pos, yaw, now), n - 1, pos, yaw, now)

\* the loop body's effect on one particle: fade out and expand
Fade(p) == [p EXCEPT !.lifetime = p.lifetime - p.decay,
                     !.scale = p.scale + ScaleGrowth]

FadedOutBelowZero(p) == p.lifetime < 0

\* if (particle.userData.lifetime <= 0)
FadedOut(p) == p.lifetime <= 0

RECURSIVE UpdateLoop(_, _)
\* the loop of updateSmokeParticles() from index i (from 1) down to the first
UpdateLoop(arr, i) ==
    IF i < 1 THEN arr
    ELSE LET p == Fade(arr[i])
         IN IF FadedOut(p) THEN UpdateLoop(Splice(arr, i), i - 1)
                           ELSE UpdateLoop([arr EXCEPT ![i] = p], i - 1)

RECURSIVE ForwardLoop(_, _)
\* the same loop run from the first index up, the index advanced after a removal
ForwardLoop(arr, i) ==
    IF i > Len(arr) THEN arr
    ELSE LET p == Fade(arr[i])
         IN IF FadedOut(p) THEN ForwardLoop(Splice(arr, i), i + 1)
                           ELSE ForwardLoop([arr EXCEPT ![i] = p], i + 1)

updateSmokeParticlesForward(arr) == ForwardLoop(arr, 1)

updateSmokeParticles(arr) == UpdateLoop(arr, Len(arr))

----------------------------------------------------------------------------
(* animate(), second half: the camera.                                     *)

Vec3(a, b, c) == [x |-> a, y |-> b, z |-> c]

\* the camera's place while the right button is held
OrbitPosition(pos, cc) ==
    Vec3(pos.x + Scale(cameraDistance, Sin(cc.cameraAngle), Unit),
         cc.cameraHeight,
         pos.z + Scale(cameraDistance, Cos(cc.cameraAngle), Unit))

\* the place behind and above the car that the camera is drawn to
CameraIdealPosition(pos, yaw) ==
    Vec3(pos.x + FollowDistance * BehindCar(yaw).x,
         FollowHeight,
         pos.z + FollowDistance * BehindCar(yaw).z)

\* Vector3.lerp(target, 0.1)
Lerp(c, t) ==
    Vec3(c.x + Scale(t.x - c.x, LerpFactor, Unit),
         c.y + Scale(t.y - c.y, LerpFactor, Unit),
         c.z + Scale(t.z - c.z, LerpFactor, Unit))

\* the camera mode of a tick
OrbitMode(cc) == cc.isRightMouseDown

CameraHandlingUnsmoothed(cam, pos, yaw, cc) ==
    IF OrbitMode(cc)
    THEN [position |-> OrbitPosition(pos, cc), lookAt |-> Vec3(pos.x, 0, pos.z)]
    ELSE [position |-> CameraIdealPosition(pos, yaw), lookAt |-> Vec3(pos.x, Unit, pos.z)]

\* the camera after the tick's camera handling
CameraHandling(cam, pos, yaw, cc) ==
    IF OrbitMode(cc)
    THEN [position |-> OrbitPosition(pos, cc), lookAt |-> Vec3(pos.x, 0, pos.z)]
    ELSE [position |-> Lerp(cam.position, CameraIdealPosition(pos, yaw)),
          lookAt |-> Vec3(pos.x, Unit, pos.z)]

----------------------------------------------------------------------------
(* Bounds of the model.                                                    *)

\* Spec: calls of animate(), key events, mouse events
MaxTicks == 3

MaxKeyEvents == 2

MaxMouseEvents == 2

\* SpecWall
WallTicks == 3

WallKeyEvents == 2

\* SpecWall: the car has held the forward or backward key for so many frames
CruiseTicks == {0, 2, 4}

\* SpecTwin
TwinTicks == 3

TwinKeyEvents == 1

TwinMouseEvents == 2

\* SpecSound
SoundTicks == 3

SoundKeyEvents == 1

\* SpecBlend
BlendTicks == 1

\* SpecPool: calls of createSmokeParticle() and updateSmokeParticles();
\* the spawns come before the PoolWindow-th update
PoolSpawns == 3

PoolUpdates == 52

PoolWindow == 2

\* SpecBurst
BurstSpawns == 150

BurstUpdates == 1

\* the values Math.random() takes in the model: 0, 1/2, and the double below 1
RandomChoices == {0, Unit \div 2, Unit - 1}

\* the random streams of Spec, SpecWall and SpecBlend
Streams == {<<0>>, <<Unit - 1, 0, Unit \div 2>>}

\* the random streams of SpecPool: every choice of three decays
PoolStreams == {<<0, 0, a, 0, 0, b, 0, 0, c>> : a, b, c \in RandomChoices}

\* the random streams of SpecBurst
BurstStreams == {<<Unit - 1>>, <<0, Unit \div 2, Unit - 1, Unit \div 2>>}

\* event.clientX and event.clientY
ClientXs == {0, 30}

ClientYs == {0, 200}

\* event.button
Buttons == {0, RightButton}

\* event.key.toLowerCase() of the keys the listeners know
Keys == {"w", "s", "a", "d", " "}

----------------------------------------------------------------------------
VARIABLES
    movement,        \* the key flags
    physics,         \* velocity, direction, isDrifting, tireSmokeTimer
    carObject,       \* position and rotation.y (yaw)
    smokeParticles,  \* the pool, oldest first
    cameraControl,   \* isRightMouseDown, mouseX, mouseY, cameraAngle, cameraHeight
    camera,          \* position and look-at point
    collisionSound,  \* whether its buffer is loaded and whether it is playing
    random,          \* the stream of Math.random() and the place in it
    spawned,         \* history: number of createSmokeParticle() calls
    log,             \* history: one entry per spawn
    updates,         \* history: number of updateSmokeParticles() calls
    ticks,           \* history: number of animate() calls
    last,            \* history: what the last animate() call saw and did
    budget,          \* the calls and events the run may still make
    twin             \* a second run of the program, given the same key events
                     \* and ticks (or none: Unpaired)

vars == <<movement, physics, carObject, smokeParticles, cameraControl, camera,
          collisionSound, random, spawned, log, updates, ticks, last, budget, twin>>

NoKeys == [forward |-> FALSE, backward |-> FALSE, left |-> FALSE,
           right |-> FALSE, drift |-> FALSE]

NoBudget == [ticks |-> 0, keys |-> 0, mouse |-> 0, spawns |-> 0, updates |-> 0,
             window |-> 0]

\* the history of a tick, before any tick
NoTick == [forward |-> FALSE, backward |-> FALSE, drifting |-> FALSE,
           posStart |-> ZeroVec, velStart |-> ZeroVec, velThrust |-> ZeroVec,
           velTraction |-> ZeroVec, nextPosition |-> ZeroVec,
           hitX |-> "none", hitZ |-> "none", velRebound |-> ZeroVec,
           impacts |-> 0, impactSpawns |-> 0,
           smoke |-> FALSE, driftSpawns |-> 0,
           prevSmoke |-> FALSE, prevDriftSpawns |-> 0,
           orbit |-> FALSE, prevOrbit |-> FALSE,
           camBefore |-> Vec3(0, 0, 0), cameraAngle |-> 0, cameraHeight |-> 0,
           normZero |-> FALSE, soundReady |-> FALSE, played |-> FALSE]

\* new THREE.Audio(listener): no buffer yet, not playing
NoSound == [buffer |-> FALSE, isPlaying |-> FALSE]

\* no second run
Unpaired == [paired |-> FALSE]

\* the state the module's top-level statements build, for a car at pos with
\* rotation.y = yaw, velocity vel and keys m, the camera at cam
Constructed(pos, yaw, vel, m, cam, stream, b) ==
    /\ movement = m
    /\ physics = [velocity |-> vel, direction |-> Vec(0, -Unit),
                  isDrifting |-> m.drift, tireSmokeTimer |-> 0]
    /\ carObject = [position |-> pos, yaw |-> yaw]
    /\ smokeParticles = << >>
    /\ cameraControl = [isRightMouseDown |-> FALSE, mouseX |-> 0, mouseY |-> 0,
                        cameraAngle |-> 0, cameraHeight |-> InitialCameraHeight]
    /\ camera = [position |-> cam, lookAt |-> Vec3(pos.x, 0, pos.z)]
    /\ collisionSound = NoSound
    /\ random = [pattern |-> stream, pos |-> 1]
    /\ spawned = 0
    /\ log = << >>
    /\ updates = 0
    /\ ticks = 0
    /\ last = NoTick
    /\ budget = b

\* camera.position.set(0, 5, 10)
InitialCamera == Vec3(0, 5 * Unit, 10 * Unit)

Init ==
    \E stream \in Streams :
        Constructed(ZeroVec, Pi, ZeroVec, NoKeys, InitialCamera, stream,
                    [NoBudget EXCEPT !.ticks = MaxTicks, !.keys = MaxKeyEvents,
                                     !.mouse = MaxMouseEvents])
        /\ twin = Unpaired

----------------------------------------------------------------------------
(* The listeners.                                                          *)

KeyField(key) ==
    CASE key = "w" -> "forward"
      [] key = "s" -> "backward"
      [] key = "a" -> "left"
      [] key = "d" -> "right"
      [] key = " " -> "drift"

DriftAfterKeydownOnly(key, held, drifting) ==
    IF key = " " /\ held THEN TRUE ELSE drifting

\* physics.isDrifting after a key event that sets the key's flag to held
DriftAfterKey(key, held, drifting) == IF key = " " THEN held ELSE drifting

\* An event that changes nothing (a repeated keydown, a move of the mouse
\* with no button held) is a stuttering step and costs no budget.
Cost(old, new) == IF old = new THEN 0 ELSE 1

\* the key flags after a key event
KeysAfter(m, key, held) == [m EXCEPT ![KeyField(key)] = held]

\* physics after a key event
PhysicsAfterKey(p, key, held) ==
    [p EXCEPT !.isDrifting = DriftAfterKey(key, held, @)]

\* the second run after the same key event, if there is one
TwinKey(t, key, held) ==
    IF t.paired
    THEN [t EXCEPT !.run.movement = KeysAfter(@, key, held),
                   !.run.physics = PhysicsAfterKey(@, key, held)]
    ELSE t

KeyEvent(key, held) ==
    /\ budget.keys > 0
    /\ movement' = KeysAfter(movement, key, held)
    /\ budget' = [budget EXCEPT !.keys = @ - Cost(movement, movement')]
    /\ physics' = PhysicsAfterKey(physics, key, held)
    /\ twin' = TwinKey(twin, key, held)
    /\ UNCHANGED <<carObject, smokeParticles, cameraControl, camera,
                   collisionSound, random, spawned, log, updates, ticks, last>>

keydown == \E key \in Keys : KeyEvent(key, TRUE)

keyup == \E key \in Keys : KeyEvent(key, FALSE)

MouseEvent(cc) ==
    /\ budget.mouse > 0
    /\ cameraControl' = cc
    /\ budget' = [budget EXCEPT !.mouse = @ - Cost(cameraControl, cc)]
    /\ UNCHANGED <<movement, physics, carObject, smokeParticles, camera,
                   collisionSound, random, spawned, log, updates, ticks, last, twin>>

\* cameraControl after a mousedown
MouseDown(cc, button, cx, cy) ==
    IF button = RightButton
    THEN [cc EXCEPT !.isRightMouseDown = TRUE, !.mouseX = cx, !.mouseY = cy]
    ELSE cc

\* cameraControl after a mouseup
MouseUp(cc, button) ==
    IF button = RightButton THEN [cc EXCEPT !.isRightMouseDown = FALSE] ELSE cc

ClampHeightUnbounded(h) == h

\* Math.max(1, Math.min(10, h))
ClampHeight(h) == Max(MinCameraHeight, Min(MaxCameraHeight, h))

\* cameraControl after a mousemove
MouseMove(cc, cx, cy) ==
    IF cc.isRightMouseDown
    THEN LET deltaX == cx - cc.mouseX
             deltaY == cy - cc.mouseY
         IN [cc EXCEPT !.cameraAngle = @ + deltaX * AnglePerPixel,
                       !.cameraHeight = ClampHeight(@ - deltaY * HeightPerPixel),
                       !.mouseX = cx, !.mouseY = cy]
    ELSE cc

mousedown ==
    \E button \in Buttons, cx \in ClientXs, cy \in ClientYs :
        MouseEvent(MouseDown(cameraControl, button, cx, cy))

mouseup == \E button \in Buttons : MouseEvent(MouseUp(cameraControl, button))

mousemove == \E cx \in ClientXs, cy \in ClientYs : MouseEvent(MouseMove(cameraControl, cx, cy))

----------------------------------------------------------------------------
(* animate(): one frame.  The frame is computed in the order of the code,  *)
(* stage by stage, on a record f of the values the code has at that point: *)
(* velocity, position, yaw, direction, the smoke timer, the pool state w,  *)
(* and h, the history of the tick.                                         *)

\* the pool state before a call
World == [pool |-> smokeParticles, random |-> random, spawned |-> spawned, log |-> log]

\* the pool state of the run s
WorldOf(s) ==
    [pool |-> s.smokeParticles, random |-> s.random, spawned |-> s.spawned,
     log |-> s.log]

\* the frame at the start of animate() in the run s: physics.direction is set
BeginOf(s) ==
    [velocity |-> s.physics.velocity,
     position |-> s.carObject.position,
     yaw |-> s.carObject.yaw,
     dir |-> Direction(s.carObject.yaw),
     timer |-> s.physics.tireSmokeTimer,
     collision |-> FALSE,
     movement |-> s.movement,
     drifting |-> s.physics.isDrifting,
     now |-> s.updates,
     sound |-> s.collisionSound,
     w |-> WorldOf(s),
     h |-> [NoTick EXCEPT !.forward = s.movement.forward,
                          !.backward = s.movement.backward,
                          !.drifting = s.physics.isDrifting,
                          !.posStart = s.carObject.position,
                          !.velStart = s.physics.velocity,
                          !.normZero = s.movement.forward /\ s.physics.isDrifting
                                       /\ s.physics.velocity = ZeroVec,
                          !.prevSmoke = s.last.smoke,
                          !.prevDriftSpawns = s.last.driftSpawns,
                          !.prevOrbit = s.last.orbit,
                          !.orbit = s.cameraControl.isRightMouseDown,
                          !.camBefore = s.camera.position,
                          !.cameraAngle = s.cameraControl.cameraAngle,
                          !.cameraHeight = s.cameraControl.cameraHeight]]

\* the run of the program that the variables hold
Program ==
    [movement |-> movement, physics |-> physics, carObject |-> carObject,
     smokeParticles |-> smokeParticles, cameraControl |-> cameraControl,
     camera |-> camera, collisionSound |-> collisionSound, random |-> random,
     spawned |-> spawned, log |-> log, updates |-> updates, last |-> last]

\* the frame at the start of animate()
Begin == BeginOf(Program)

\* if (movement.forward) ... if (movement.backward) ...
ApplyThrust(f) ==
    [f EXCEPT !.velocity = Thrust(f.velocity, f.dir, f.movement, f.drifting)]

\* if (movement.left) ... if (movement.right) ...
ApplyTurn(f) == [f EXCEPT !.yaw = Turn(f.yaw, f.movement, f.drifting)]

\* physics.velocity.multiplyScalar(tractionFactor)
ApplyTraction(f) ==
    [f EXCEPT !.h.velThrust = f.velocity,
              !.velocity = Traction(f.velocity, f.drifting)]

\* the frame after the collision c
WithCollision(f, c) ==
    [f EXCEPT !.h.velTraction = f.velocity,
              !.h.nextPosition = c.nextPosition,
              !.h.hitX = c.hitX,
              !.h.hitZ = c.hitZ,
              !.h.velRebound = c.velocity,
              !.collision = c.collision,
              !.velocity = c.velocity,
              !.position = c.position]

\* the boundary checks and if (!collision) carObject.position.add(velocity)
ApplyCollision(f) == WithCollision(f, Collide(f.position, f.velocity))

\* the number of impact particles of a tick
ImpactSpawns(impact) == IF impact THEN ImpactParticles ELSE 0

AfterImpactUndamped(impact, vel) == vel

\* the velocity after the impact branch
AfterImpact(impact, vel) ==
    IF impact THEN MultiplyScalar(vel, ImpactDamping, Unit) ELSE vel

\* collisionSound && collisionSound.buffer && !collisionSound.isPlaying
SoundReady(a) == a.buffer /\ ~a.isPlaying

\* the sound after if (...) collisionSound.play()
PlayIfReady(a) == IF SoundReady(a) THEN [a EXCEPT !.isPlaying = TRUE] ELSE a

WithImpactWhenSoundPlays(f, impact) ==
    [f EXCEPT !.h.impacts = IF impact THEN 1 ELSE 0,
              !.h.impactSpawns = ImpactSpawns(impact /\ SoundReady(f.sound)),
              !.h.soundReady = SoundReady(f.sound),
              !.h.played = impact /\ SoundReady(f.sound),
              !.sound = IF impact THEN PlayIfReady(f.sound) ELSE f.sound,
              !.w = SpawnParticles(f.w, ImpactSpawns(impact /\ SoundReady(f.sound)),
                                   f.position, f.yaw, f.now),
              !.velocity = AfterImpact(impact /\ SoundReady(f.sound), f.velocity)]

\* the frame after the impact branch, taken or not
WithImpact(f, impact) ==
    [f EXCEPT !.h.impacts = IF impact THEN 1 ELSE 0,
              !.h.impactSpawns = ImpactSpawns(impact),
              !.h.soundReady = SoundReady(f.sound),
              !.h.played = impact /\ SoundReady(f.sound),
              !.sound = IF impact THEN PlayIfReady(f.sound) ELSE f.sound,
              !.w = SpawnParticles(f.w, ImpactSpawns(impact), f.position, f.yaw, f.now),
              !.velocity = AfterImpact(impact, f.velocity)]

\* else if (collision && physics.velocity.length() > 0.05) ...
ApplyImpact(f) == WithImpact(f, Impact(f.collision, f.velocity))

SmokeFiresEveryTick(smoke, timer) == smoke /\ timer >= 1

\* whether the smoke timer, already advanced, fires
SmokeFires(smoke, timer) == smoke /\ timer >= SmokeEvery

WithSmokeFiredMovingCar(f, fires) ==
    [f EXCEPT !.h.driftSpawns = IF fires THEN 1 ELSE 0,
              !.w = IF fires THEN createSmokeParticle(f.w, f.position, f.yaw, f.now)
                             ELSE f.w,
              !.position = IF fires
                           THEN Add(f.position,
                                    ApplyQuaternion(Offset(Draw(f.w.random, 0),
                                                           Draw(f.w.random, 1)), f.yaw))
                           ELSE f.position,
              !.timer = IF fires THEN 0 ELSE f.timer]

\* the frame after the inner if of the tire smoke
WithSmokeFired(f, fires) ==
    [f EXCEPT !.h.driftSpawns = IF fires THEN 1 ELSE 0,
              !.w = IF fires THEN createSmokeParticle(f.w, f.position, f.yaw, f.now)
                             ELSE f.w,
              !.timer = IF fires THEN 0 ELSE f.timer]

\* the frame after the tire smoke, the condition being smoke
WithSmoke(f, smoke) ==
    WithSmokeFired([f EXCEPT !.h.smoke = smoke,
                             !.timer = IF smoke THEN f.timer + 1 ELSE f.timer],
                   SmokeFires(smoke, IF smoke THEN f.timer + 1 ELSE f.timer))

\* if (physics.isDrifting && (movement.forward || velocity.length() > 0.05)) ...
ApplySmoke(f) ==
    WithSmoke(f, SmokeCondition(f.drifting, f.movement, f.velocity))

\* the run s after the frame f: the particles are updated and the camera
\* placed
After(s, f) ==
    [s EXCEPT !.physics = [velocity |-> f.velocity, direction |-> f.dir,
                           isDrifting |-> f.drifting, tireSmokeTimer |-> f.timer],
              !.carObject = [position |-> f.position, yaw |-> f.yaw],
              !.smokeParticles = updateSmokeParticles(f.w.pool),
              !.random = f.w.random,
              !.spawned = f.w.spawned,
              !.log = f.w.log,
              !.updates = @ + 1,
              !.camera = CameraHandling(s.camera, f.position, f.yaw, s.cameraControl),
              !.collisionSound = f.sound,
              !.last = f.h]

\* animate() as a function of the run
Tick(s) ==
    After(s, ApplySmoke(ApplyImpact(ApplyCollision(ApplyTraction(ApplyTurn(
                 ApplyThrust(BeginOf(s))))))))

\* the variables take the run n
Store(n) ==
    /\ physics' = n.physics
    /\ carObject' = n.carObject
    /\ smokeParticles' = n.smokeParticles
    /\ random' = n.random
    /\ spawned' = n.spawned
    /\ log' = n.log
    /\ updates' = n.updates
    /\ camera' = n.camera
    /\ collisionSound' = n.collisionSound
    /\ last' = n.last

\* the state after the frame f
Commit(f) == Store(After(Program, f)) /\ ticks' = ticks + 1

\* the second run after the same tick, if there is one
TwinTick(t) == IF t.paired THEN [t EXCEPT !.run = Tick(@)] ELSE t

animate ==
    /\ budget.ticks > 0
    /\ budget' = [budget EXCEPT !.ticks = @ - 1]
    /\ Commit(ApplySmoke(ApplyImpact(ApplyCollision(ApplyTraction(ApplyTurn(
                ApplyThrust(Begin)))))))
    /\ twin' = TwinTick(twin)
    /\ UNCHANGED <<movement, cameraControl>>

----------------------------------------------------------------------------
(* SpecWall: the car near the walls.  From the origin the car needs some   *)
(* hundreds of frames to reach a wall (and 35 frames of turning to face    *)
(* the X walls), so SpecWall starts where such a drive has brought it: at  *)
(* a place near a wall or a corner (or, for comparison, at the origin),    *)
(* heading along an axis or a diagonal, with the velocity that k frames of *)
(* the forward (or backward) key give a car at rest, the key still held,   *)
(* the camera behind the car and the pool empty.  The keyboard and the     *)
(* frames then go on as in Spec.                                           *)

\* the coordinate of the car when it touches the max edges
EdgeMax == BOUNDARY.maxX - carRadius

\* left turns from the initial rotation.y: 35 drifting (heading +X),
\* 26 plain (heading between +X and +Z)
YawX == Pi + 35 * 450

YawDiagonal == Pi + 26 * 300

WallPoses ==
    {[position |-> ZeroVec, yaw |-> Pi],
     [position |-> Vec(EdgeMax - 400, 0), yaw |-> YawX],
     [position |-> Vec(0, EdgeMax - 400), yaw |-> Pi],
     [position |-> Vec(EdgeMax - 400, EdgeMax - 900), yaw |-> YawDiagonal],
     [position |-> Vec(400 - EdgeMax, 900 - EdgeMax), yaw |-> YawDiagonal]}

Gears == {[NoKeys EXCEPT !.forward = TRUE], [NoKeys EXCEPT !.backward = TRUE]}

RECURSIVE Cruise(_, _, _)
\* the velocity after k frames of the keys m, from rest, heading yaw
Cruise(yaw, m, k) ==
    IF k = 0 THEN ZeroVec
    ELSE Traction(Thrust(Cruise(yaw, m, k - 1), Direction(yaw), m, FALSE), FALSE)

InitWall ==
    \E pose \in WallPoses, k \in CruiseTicks, gear \in Gears, stream \in Streams :
        Constructed(pose.position, pose.yaw, Cruise(pose.yaw, gear, k),
                    IF k = 0 THEN NoKeys ELSE gear,
                    CameraIdealPosition(pose.position, pose.yaw), stream,
                    [NoBudget EXCEPT !.ticks = WallTicks, !.keys = WallKeyEvents])
        /\ twin = Unpaired

NextWall == keydown \/ keyup \/ animate

SpecWall == InitWall /\ [][NextWall]_vars

----------------------------------------------------------------------------
(* SpecTwin: two runs of the program side by side.  The first is the run   *)
(* of the variables; the second, twin.run, starts from the same state but  *)
(* draws another stream from Math.random() and receives no mouse event.    *)
(* Every key event and every tick happens in both runs.                    *)

\* the stream of Math.random() of the second run
TwinStream == <<Unit \div 4, Unit - 1>>

\* the run s as a second run, with its own stream
Paired(s) ==
    [paired |-> TRUE, run |-> [s EXCEPT !.random = [pattern |-> TwinStream, pos |-> 1]]]

\* the car near a corner, heading along neither axis
TwinPoses == {pose \in WallPoses : pose.yaw = YawDiagonal}

InitTwin ==
    \E pose \in TwinPoses, k \in CruiseTicks, gear \in Gears, stream \in Streams :
        Constructed(pose.position, pose.yaw, Cruise(pose.yaw, gear, k),
                    IF k = 0 THEN NoKeys ELSE gear,
                    CameraIdealPosition(pose.position, pose.yaw), stream,
                    [NoBudget EXCEPT !.ticks = TwinTicks, !.keys = TwinKeyEvents,
                                     !.mouse = TwinMouseEvents])
        /\ twin = Paired(Program)

NextTwin == keydown \/ keyup \/ mousedown \/ mouseup \/ mousemove \/ animate

SpecTwin == InitTwin /\ [][NextTwin]_vars

----------------------------------------------------------------------------
(* SpecSound: the car near the walls, as in SpecWall, with the collision   *)
(* sound.  The buffer arrives at any moment (the callback of               *)
(* audioLoader.load) and a sound that plays ends at any moment.  The       *)
(* second run starts from the same state and gets the same key events and  *)
(* ticks, but its buffer never arrives.                                    *)

\* the callback of audioLoader.load('sounds/car_impact.mp3', ...)
collisionSoundLoaded ==
    /\ ~collisionSound.buffer
    /\ collisionSound' = [collisionSound EXCEPT !.buffer = TRUE]
    /\ UNCHANGED <<movement, physics, carObject, smokeParticles, cameraControl,
                   camera, random, spawned, log, updates, ticks, last, budget, twin>>

\* the sound has played to its end: THREE.Audio.onEnded
collisionSoundEnded ==
    /\ collisionSound.isPlaying
    /\ collisionSound' = [collisionSound EXCEPT !.isPlaying = FALSE]
    /\ UNCHANGED <<movement, physics, carObject, smokeParticles, cameraControl,
                   camera, random, spawned, log, updates, ticks, last, budget, twin>>

InitSound ==
    \E pose \in WallPoses, k \in CruiseTicks, gear \in Gears, stream \in Streams :
        Constructed(pose.position, pose.yaw, Cruise(pose.yaw, gear, k),
                    IF k = 0 THEN NoKeys ELSE gear,
                    CameraIdealPosition(pose.position, pose.yaw), stream,
                    [NoBudget EXCEPT !.ticks = SoundTicks, !.keys = SoundKeyEvents])
        /\ twin = [paired |-> TRUE, run |-> Program]

NextSound == keydown \/ keyup \/ animate \/ collisionSoundLoaded \/ collisionSoundEnded

SpecSound == InitSound /\ [][NextSound]_vars

----------------------------------------------------------------------------
(* SpecBlend: one frame from the states of a test of the thrust: the car   *)
(* at the origin, heading -Z, +Z or +X, with a velocity of a small grid,   *)
(* some of the keys held.                                                  *)

BlendYaws == {0, Pi, YawX}

BlendSpeeds == {-5000, 0, 300, 3000, 10000}

BlendKeys ==
    {[NoKeys EXCEPT !.forward = TRUE, !.drift = TRUE],
     [NoKeys EXCEPT !.forward = TRUE],
     [NoKeys EXCEPT !.forward = TRUE, !.backward = TRUE, !.drift = TRUE]}

InitBlend ==
    \E yaw \in BlendYaws, vx, vz \in BlendSpeeds, m \in BlendKeys, stream \in Streams :
        Constructed(ZeroVec, yaw, Vec(vx, vz), m, CameraIdealPosition(ZeroVec, yaw),
                    stream, [NoBudget EXCEPT !.ticks = BlendTicks])
        /\ twin = Unpaired

NextBlend == animate

SpecBlend == InitBlend /\ [][NextBlend]_vars

----------------------------------------------------------------------------
(* SpecPool and SpecBurst: the two functions of the pool, called on their  *)
(* own as a test of the pool calls them, the car at rest at the origin.    *)

CallCreateSmokeParticle ==
    /\ budget.spawns > 0
    /\ updates < budget.window
    /\ budget' = [budget EXCEPT !.spawns = @ - 1]
    /\ LET w == createSmokeParticle(World, carObject.position, carObject.yaw, updates)
       IN /\ smokeParticles' = w.pool
          /\ random' = w.random
          /\ spawned' = w.spawned
          /\ log' = w.log
    /\ UNCHANGED <<movement, physics, carObject, cameraControl, camera,
                   collisionSound, updates, ticks, last, twin>>

CallUpdateSmokeParticles ==
    /\ budget.updates > 0
    /\ budget' = [budget EXCEPT !.updates = @ - 1]
    /\ smokeParticles' = updateSmokeParticles(smokeParticles)
    /\ updates' = updates + 1
    /\ UNCHANGED <<movement, physics, carObject, cameraControl, camera,
                   collisionSound, random, spawned, log, ticks, last, twin>>

InitPool ==
    \E stream \in PoolStreams :
        Constructed(ZeroVec, Pi, ZeroVec, NoKeys, InitialCamera, stream,
                    [NoBudget EXCEPT !.spawns = PoolSpawns, !.updates = PoolUpdates,
                                     !.window = PoolWindow])
        /\ twin = Unpaired

NextPool == CallCreateSmokeParticle \/ CallUpdateSmokeParticles

SpecPool == InitPool /\ [][NextPool]_vars

InitBurst ==
    \E stream \in BurstStreams :
        Constructed(ZeroVec, Pi, ZeroVec, NoKeys, InitialCamera, stream,
                    [NoBudget EXCEPT !.spawns = BurstSpawns, !.updates = BurstUpdates,
                                     !.window = BurstUpdates + 1])
        /\ twin = Unpaired

NextBurst == CallCreateSmokeParticle \/ CallUpdateSmokeParticles

SpecBurst == InitBurst /\ [][NextBurst]_vars

----------------------------------------------------------------------------
Next == keydown \/ keyup \/ mousedown \/ mouseup \/ mousemove \/ animate

Spec == Init /\ [][Next]_vars

----------------------------------------------------------------------------
(* Properties.  "The last tick" is the last call of animate(); the history *)
(* variable last holds what it read and what it did.                       *)

Ticked == ticks > 0

\* the last tick hit a boundary
LastCollided == last.hitX # "none" \/ last.hitZ # "none"

\* v is half of r, to the rounding of a unit
IsHalfOf(v, r) == Abs(2 * v - r) <= 2

\* vector v is half of vector r
IsHalfVec(v, r) == IsHalfOf(v.x, r.x) /\ IsHalfOf(v.z, r.z)

\* C1: in every state the car is inside the boundary shrunk by carRadius:
\* minX + carRadius <= x <= maxX - carRadius, and the same for z.
C1_InsideBoundary ==
    /\ BOUNDARY.minX + carRadius <= carObject.position.x
    /\ carObject.position.x <= BOUNDARY.maxX - carRadius
    /\ BOUNDARY.minZ + carRadius <= carObject.position.z
    /\ carObject.position.z <= BOUNDARY.maxZ - carRadius

\* a tick whose tentative position was outside on both axes, on the min side
C1_Witness ==
    /\ Ticked
    /\ last.nextPosition.x < BOUNDARY.minX + carRadius
    /\ last.nextPosition.z < BOUNDARY.minZ + carRadius
    /\ carObject.position = Vec(BOUNDARY.minX + carRadius, BOUNDARY.minZ + carRadius)

\* C2: the pool never holds more than MAX_PARTICLES particles; an eviction
\* takes the oldest, so that every particle of the pool is younger than
\* every evicted one; and with no update so far the pool is exactly the
\* last min(spawned, MAX_PARTICLES) particles spawned, in spawn order
\* (after 150 spawns: the particles 51 .. 150).
C2_PoolBoundFifo ==
    /\ Len(smokeParticles) <= MAX_PARTICLES
    /\ \A i \in 1..Len(log) : \A j \in 1..Len(smokeParticles) :
           log[i].evicted => smokeParticles[j].id > i
    /\ updates = 0 =>
          /\ Len(smokeParticles) = Min(spawned, MAX_PARTICLES)
          /\ \A j \in 1..Len(smokeParticles) :
                 smokeParticles[j].id = spawned - Len(smokeParticles) + j

\* 150 spawns and no update: the particles 51 .. 150
C2_Witness ==
    /\ spawned = 150 /\ updates = 0
    /\ Len(smokeParticles) = 100
    /\ smokeParticles[1].id = 51 /\ smokeParticles[100].id = 150
    /\ \A i \in 1..50 : log[i].evicted

\* C3 as claimed: after a tick that hit a boundary with a speed above 0.05
\* at the moment of the hit (before the boundary response), the velocity is
\* half of the rebound-scaled velocity and the impact effects ran once.
C3_Original ==
    (Ticked /\ LastCollided /\ LongerThan(last.velTraction, SpeedThreshold))
        => (IsHalfVec(physics.velocity, last.velRebound) /\ last.impacts = 1)

\* C3 amended: after a tick that hit a boundary and whose speed after the
\* boundary response (the rebound-scaled velocity) is above 0.05, the
\* velocity is half of the rebound-scaled velocity and the impact effects
\* (ten particles) ran exactly once.
C3_ImpactHalves ==
    (Ticked /\ LastCollided /\ LongerThan(last.velRebound, SpeedThreshold))
        => /\ IsHalfVec(physics.velocity, last.velRebound)
           /\ last.impacts = 1
           /\ last.impactSpawns = ImpactParticles

C3_Witness ==
    /\ Ticked /\ LastCollided /\ LongerThan(last.velRebound, SpeedThreshold)
    /\ last.impacts = 1
    /\ physics.velocity # ZeroVec

\* C4 as claimed: after a tick whose tentative x was beyond maxX - carRadius,
\* x is maxX - carRadius and velocity.x is minus the x velocity before the
\* boundary response, times collisionRebound (one half).
C4_Original ==
    (Ticked /\ last.nextPosition.x > BOUNDARY.maxX - carRadius)
        => /\ carObject.position.x = BOUNDARY.maxX - carRadius
           /\ IsHalfOf(physics.velocity.x, -last.velTraction.x)

\* C4 amended: after such a tick x is maxX - carRadius, and velocity.x is
\* minus the x velocity before the boundary response times collisionRebound
\* when the tick had no impact effects (speed after the response <= 0.05),
\* and half of that when it had.
C4_ClampAndRebound ==
    (Ticked /\ last.nextPosition.x > BOUNDARY.maxX - carRadius)
        => /\ carObject.position.x = BOUNDARY.maxX - carRadius
           /\ IsHalfOf(last.velRebound.x, -last.velTraction.x)
           /\ (~LongerThan(last.velRebound, SpeedThreshold)
                  => physics.velocity.x = last.velRebound.x)
           /\ (LongerThan(last.velRebound, SpeedThreshold)
                  => IsHalfOf(physics.velocity.x, last.velRebound.x))

C4_Witness ==
    /\ Ticked
    /\ last.nextPosition.x > BOUNDARY.maxX - carRadius
    /\ last.velTraction.x > SpeedThreshold
    /\ ~LongerThan(last.velRebound, SpeedThreshold)
    /\ physics.velocity.x < 0

\* the speed that traction leaves of the speed at the start of the last tick
DecayedSpeed ==
    Scale(Length(last.velStart), IF last.drifting THEN driftDecay ELSE traction, Unit)

\* the speed after the last tick is the decayed speed, to the rounding
SpeedDecayed == Abs(Length(physics.velocity) - DecayedSpeed) <= 3

\* C5 as claimed: after every tick with neither forward nor backward held,
\* the speed is the speed before the tick times traction (0.95), or times
\* driftDecay (0.98) when drifting.
C5_Original ==
    (Ticked /\ ~last.forward /\ ~last.backward) => SpeedDecayed

\* C5 amended: the same, for the ticks that hit no boundary.
C5_TractionDecay ==
    (Ticked /\ ~last.forward /\ ~last.backward /\ ~LastCollided) => SpeedDecayed

C5_Witness ==
    /\ Ticked /\ ~last.forward /\ ~last.backward /\ ~LastCollided
    /\ last.drifting
    /\ Length(last.velStart) > 1000

\* C6: a tick spawns at most one drift-smoke particle, and only while the
\* smoke condition holds; of two ticks in a row that both satisfy the
\* condition exactly one spawns; no two ticks in a row both spawn.
C6_SmokeEverySecondTick ==
    Ticked =>
        /\ last.driftSpawns \in {0, 1}
        /\ (last.driftSpawns = 1 => last.smoke)
        /\ (last.smoke /\ last.prevSmoke => last.driftSpawns + last.prevDriftSpawns = 1)
        /\ last.driftSpawns + last.prevDriftSpawns <= 1

\* three qualifying ticks in a row: no spawn, spawn, no spawn
C6_Witness ==
    /\ ticks >= 3
    /\ last.smoke /\ last.prevSmoke
    /\ last.prevDriftSpawns = 1 /\ last.driftSpawns = 0
    /\ spawned >= 1

\* the camera is at c + (t - c) / 10 on one axis, to the rounding
IsTenthOfWay(new, c, t) == Abs(10 * (new - c) - (t - c)) <= 10

\* the camera is where the follow mode puts it, from where it was
FollowPlacement ==
    LET ideal == CameraIdealPosition(carObject.position, carObject.yaw)
    IN /\ IsTenthOfWay(camera.position.x, last.camBefore.x, ideal.x)
       /\ IsTenthOfWay(camera.position.y, last.camBefore.y, ideal.y)
       /\ IsTenthOfWay(camera.position.z, last.camBefore.z, ideal.z)
       /\ camera.lookAt = Vec3(carObject.position.x, Unit, carObject.position.z)

\* the camera is where the orbit mode puts it: on the circle of radius
\* cameraDistance around the car at the angle and height of the drag
OrbitPlacement ==
    /\ camera.position.x - carObject.position.x
         = Scale(cameraDistance, Sin(last.cameraAngle), Unit)
    /\ camera.position.z - carObject.position.z
         = Scale(cameraDistance, Cos(last.cameraAngle), Unit)
    /\ camera.position.y = last.cameraHeight
    /\ camera.lookAt = Vec3(carObject.position.x, 0, carObject.position.z)

\* C7: after every tick the camera is at the orbit placement if the right
\* button was held at that tick and at the smoothed follow placement (a
\* tenth of the way from its last position to the ideal one) if it was not,
\* whatever the mode of the tick before.
C7_CameraMode ==
    Ticked => IF last.orbit THEN OrbitPlacement ELSE FollowPlacement

\* an orbit tick, a mouseup, then a follow tick that moves the camera off
\* the orbit placement but not onto the ideal position
C7_Witness ==
    /\ ticks >= 2 /\ last.prevOrbit /\ ~last.orbit
    /\ FollowPlacement
    /\ camera.position # last.camBefore
    /\ camera.position # CameraIdealPosition(carObject.position, carObject.yaw)

\* the number of updates the i-th spawned particle has lived through
Age(i) == updates - log[i].born

\* the i-th spawned particle is in the pool
Active(i) == i \in Ids(smokeParticles)

\* C8: a particle with decay 0.05 that the capacity bound has not evicted
\* is in the pool after up to 19 updates and out of it from the 20th on.
C8_TwentyUpdates ==
    \A i \in 1..Len(log) :
        (log[i].decay = Decay(Unit - 1) /\ ~log[i].evicted)
            => /\ Age(i) <= 19 => Active(i)
               /\ Age(i) >= 20 => ~Active(i)

\* a particle with decay 0.05 just removed by its 20th update, an older
\* one with a smaller decay still in the pool
C8_Witness ==
    \E i \in 1..Len(log) :
        /\ log[i].decay = 500 /\ Age(i) = 20 /\ ~Active(i)
        /\ \E j \in 1..Len(log) : j < i /\ Active(j)

\* the direction of the blend 0.8 (1,0,0) + 0.2 (0,0,-1), reduced
BlendOfClaim == Vec(4, -1)

\* v is parallel to w and points the same way, to the rounding of v
ParallelTo(v, w) ==
    /\ Abs(v.x * w.z - v.z * w.x) <= Abs(w.x) + Abs(w.z)
    /\ v.x * w.x + v.z * w.z > 0

\* the case of C9: a tick with forward (and not backward) held while
\* drifting, no collision, the velocity along +X, the car heading -Z
BlendCase ==
    /\ Ticked /\ last.forward /\ ~last.backward /\ last.drifting /\ ~LastCollided
    /\ last.velStart.x > 0 /\ last.velStart.z = 0
    /\ physics.direction = Vec(0, -Unit)

\* C9 as claimed: in that case the new velocity is parallel to the blend
\* and points the same way.
C9_Original == BlendCase => ParallelTo(physics.velocity, BlendOfClaim)

\* the velocity that the forward key added in the last tick
LastThrust == Vec(last.velThrust.x - last.velStart.x, last.velThrust.z - last.velStart.z)

\* C9 amended: in that case the velocity that the tick adds for the forward
\* key is parallel to the blend, points the same way and is carSpeed long;
\* the new velocity is the old one plus that thrust, times driftDecay.
C9_ThrustAlongBlend ==
    BlendCase =>
        /\ ParallelTo(LastThrust, BlendOfClaim)
        /\ Abs(Length(LastThrust) - carSpeed) <= 2
        /\ Abs(physics.velocity.x * Unit - last.velThrust.x * driftDecay) < Unit
        /\ Abs(physics.velocity.z * Unit - last.velThrust.z * driftDecay) < Unit

C9_Witness ==
    /\ BlendCase
    /\ last.velStart = Vec(3000, 0)
    /\ LastThrust.x > 0 /\ LastThrust.z < 0
    /\ physics.velocity.z < 0

\* C10: every particle of the pool has a lifetime above 0 and has been
\* faded and grown once for each update since its spawn; every spawned
\* particle that has not been evicted and whose lifetime is still above 0
\* is in the pool; the pool is in spawn order.
C10_UpdateRemovesExactly ==
    /\ \A j \in 1..Len(smokeParticles) :
          LET p == smokeParticles[j]
          IN /\ p.lifetime > 0
             /\ p.lifetime = InitialLifetime - p.decay * Age(p.id)
             /\ p.scale = Unit + ScaleGrowth * Age(p.id)
             /\ (j > 1 => smokeParticles[j - 1].id < p.id)
    /\ \A i \in 1..Len(log) :
          (~log[i].evicted /\ InitialLifetime - log[i].decay * Age(i) > 0) => Active(i)

\* an update has just removed a particle from between two that stay
C10_Witness ==
    \E i \in 1..Len(log) :
        /\ ~Active(i) /\ ~log[i].evicted
        /\ InitialLifetime - log[i].decay * Age(i) <= 0
        /\ InitialLifetime - log[i].decay * (Age(i) - 1) > 0
        /\ Active(i - 1) /\ Active(i + 1)

\* the orbit height is between the two limits of the clamp
HeightInRange ==
    /\ cameraControl.cameraHeight >= MinCameraHeight
    /\ cameraControl.cameraHeight <= MaxCameraHeight

\* a step that changes the orbit angle or the orbit height
OrbitChanged ==
    \/ cameraControl'.cameraAngle # cameraControl.cameraAngle
    \/ cameraControl'.cameraHeight # cameraControl.cameraHeight

\* a step of the mousemove listener with the right button held: a mouse
\* event that finds the button held and leaves it held, and touches nothing
\* but cameraControl
HeldMouseMove ==
    /\ cameraControl.isRightMouseDown
    /\ cameraControl'.isRightMouseDown
    /\ budget'.mouse < budget.mouse
    /\ UNCHANGED <<movement, physics, carObject, smokeParticles, camera, ticks>>

\* C11: the orbit height is within [1, 10] in every reachable state, and
\* every step that changes the orbit angle or the orbit height is a mouse
\* movement with the right button held; keys, ticks, mousedown, mouseup and
\* a mouse movement with the button released leave both unchanged.
C11_OrbitHeightClamped == []HeightInRange /\ [][OrbitChanged => HeldMouseMove]_vars

\* the button was pressed at (0, 0) and the mouse dragged to (30, 200): the
\* angle has moved by 30 pixels' worth and the height, 3 - 10, is clamped
\* to the lower limit
C11_Witness ==
    /\ cameraControl.isRightMouseDown
    /\ cameraControl.mouseX = 30 /\ cameraControl.mouseY = 200
    /\ cameraControl.cameraAngle = 30 * AnglePerPixel
    /\ InitialCameraHeight - 200 * HeightPerPixel < MinCameraHeight
    /\ cameraControl.cameraHeight = MinCameraHeight

\* C12 as claimed: no tick normalizes a zero velocity in the drift-blend
\* branch (forward held while drifting).
C12_Original == Ticked => ~last.normZero

\* the thrust of carSpeed along the direction of the last tick
StraightThrust == MultiplyScalar(physics.direction, carSpeed, Unit)

\* v is w, to the rounding of a unit in each component
NearVec(v, w) == Abs(v.x - w.x) <= 1 /\ Abs(v.z - w.z) <= 1

\* C12 amended: a tick can normalize a zero velocity in the drift-blend
\* branch (forward pressed while drifting, the car at rest); normalize()
\* then leaves the zero vector as it is, the blend is the forward direction,
\* and the velocity after the keys is carSpeed along the forward direction
\* (or zero again when backward is held too).
C12_ZeroBlendIsForward ==
    (Ticked /\ last.normZero) =>
        /\ last.velStart = ZeroVec
        /\ ~last.backward => NearVec(last.velThrust, StraightThrust)
        /\ last.backward => NearVec(last.velThrust, ZeroVec)

\* the car at rest, heading along neither axis, space and w pressed: the
\* tick normalizes the zero velocity and thrusts along the heading
C12_Witness ==
    /\ Ticked /\ last.normZero /\ ~last.backward
    /\ physics.direction.x # 0 /\ physics.direction.z # 0
    /\ last.velThrust.x # 0 /\ last.velThrust.z # 0

\* the number of createSmokeParticle() calls of the last tick
SpawnsOfLastTick == Cardinality({i \in 1..Len(log) : log[i].born = updates - 1})

\* the last tick hit a boundary and left it faster than 0.05
FastHit == LastCollided /\ LongerThan(last.velRebound, SpeedThreshold)

\* C13: the collision effects happen on exactly the ticks that hit a
\* boundary with a speed above 0.05 after the rebound.  On such a tick ten
\* particles are spawned (besides the one of the tire smoke, if any) and the
\* velocity after the tick is half of the rebound velocity; on every other
\* tick, a slower hit or no hit at all, no impact particle is spawned and
\* the velocity after the tick is the velocity after the boundary checks.
C13_ImpactExactlyOnFastHit ==
    Ticked =>
        /\ FastHit => /\ SpawnsOfLastTick = ImpactParticles + last.driftSpawns
                      /\ physics.velocity = MultiplyScalar(last.velRebound, ImpactDamping, Unit)
        /\ ~FastHit => /\ SpawnsOfLastTick = last.driftSpawns
                       /\ physics.velocity = last.velRebound

\* a hit that leaves the wall moving, but no faster than 0.05: nothing is
\* spawned and the rebound velocity is kept
C13_Witness ==
    /\ Ticked /\ LastCollided /\ ~FastHit
    /\ last.velRebound # ZeroVec
    /\ physics.velocity = last.velRebound
    /\ SpawnsOfLastTick = 0

\* the coordinate c of the last tick's position ended where a hit puts it:
\* on the edge for a colliding axis, where it started for an axis that did
\* not collide
PlacedByHit(hit, c, start, lo, hi) ==
    /\ hit = "min" => c = lo + carRadius
    /\ hit = "max" => c = hi - carRadius
    /\ hit = "none" => c = start

\* C14: after a tick in which at least one axis collided, the coordinate of
\* each colliding axis is the edge moved inwards by carRadius, and the
\* coordinate of an axis that did not collide is the one the tick started
\* with: the velocity is not added to the position.
C14_OnlyCollidingAxisMoves ==
    (Ticked /\ LastCollided) =>
        /\ PlacedByHit(last.hitX, carObject.position.x, last.posStart.x,
                       BOUNDARY.minX, BOUNDARY.maxX)
        /\ PlacedByHit(last.hitZ, carObject.position.z, last.posStart.z,
                       BOUNDARY.minZ, BOUNDARY.maxZ)

\* the car ran into the max X edge while also moving along Z: x is on the
\* edge, z is where it was, although the Z velocity is not zero
C14_Witness ==
    /\ Ticked /\ last.hitX = "max" /\ last.hitZ = "none"
    /\ last.velTraction.z # 0
    /\ last.nextPosition.z # last.posStart.z
    /\ carObject.position.x = BOUNDARY.maxX - carRadius
    /\ carObject.position.x # last.posStart.x
    /\ carObject.position.z = last.posStart.z

\* the two runs agree on the vehicle: position, yaw and velocity
SameVehicle ==
    /\ twin.run.carObject.position = carObject.position
    /\ twin.run.carObject.yaw = carObject.yaw
    /\ twin.run.physics.velocity = physics.velocity

\* C15: the vehicle does not depend on the camera or on the particles.  Two
\* runs from the same state that are given the same key events and ticks,
\* one with mouse events and one without, each with its own results of
\* Math.random(), have the same car position, yaw and velocity in every
\* state.
C15_VehicleIndependent == twin.paired => SameVehicle

\* after a tick that moved the car, the two runs differ in the orbit
\* control, in the place of the camera and in the particles of the pool,
\* and agree on the vehicle
C15_Witness ==
    /\ twin.paired /\ Ticked /\ SameVehicle
    /\ physics.velocity # ZeroVec
    /\ carObject.position # last.posStart
    /\ twin.run.cameraControl # cameraControl
    /\ twin.run.camera.position # camera.position
    /\ smokeParticles # << >>
    /\ twin.run.smokeParticles # smokeParticles
    /\ twin.run.random # random

\* the second run agrees with the first on the vehicle and on the particles
SameVehicleAndParticles ==
    /\ twin.run.carObject = carObject
    /\ twin.run.physics = physics
    /\ twin.run.smokeParticles = smokeParticles
    /\ twin.run.random = random
    /\ twin.run.spawned = spawned

\* C16: a tick with a collision event (a boundary hit that leaves the wall
\* faster than 0.05) plays the sound exactly when the buffer is loaded and
\* the sound is not playing already.  With or without the sound, the tick
\* spawns the ten impact particles, halves the velocity and ends; the run
\* whose buffer never arrives plays nothing and has, in every state, the
\* same vehicle and the same particles as the run whose buffer is loaded.
C16_SoundOptional ==
    (twin.paired /\ Ticked) =>
        /\ last.played = (FastHit /\ last.soundReady)
        /\ FastHit => /\ SpawnsOfLastTick = ImpactParticles + last.driftSpawns
                      /\ physics.velocity = MultiplyScalar(last.velRebound, ImpactDamping, Unit)
        /\ ~twin.run.collisionSound.buffer
        /\ ~twin.run.last.played
        /\ twin.run.last.impacts = last.impacts
        /\ SameVehicleAndParticles

\* a collision event in both runs: the first played the sound, the second
\* has no buffer and played nothing; both spawned and both were slowed
C16_Witness ==
    /\ twin.paired /\ Ticked /\ FastHit
    /\ last.played /\ collisionSound.isPlaying
    /\ ~twin.run.last.played /\ ~twin.run.collisionSound.isPlaying
    /\ twin.run.last.impacts = 1
    /\ Len(twin.run.smokeParticles) >= ImpactParticles
    /\ SameVehicleAndParticles

\* physics.isDrifting is the drift key flag
DriftTracksKey == physics.isDrifting = movement.drift

\* a step of animate() that used the drift key flag of its state for the
\* thrust, the turn rate, the traction and the tire smoke
TickUsesDriftKey ==
    /\ last'.drifting = movement.drift
    /\ last'.velThrust = Thrust(physics.velocity, Direction(carObject.yaw),
                                movement, movement.drift)
    /\ carObject'.yaw = Turn(carObject.yaw, movement, movement.drift)
    /\ last'.velTraction = Traction(last'.velThrust, movement.drift)
    /\ last'.smoke = SmokeCondition(movement.drift, movement, physics'.velocity)

\* C17: physics.isDrifting equals movement.drift in every reachable state,
\* whatever the order of the key events and ticks, and every tick computes
\* its thrust, turn, traction and tire-smoke condition with the drift key
\* flag of the state it starts in.
C17_DriftingIsDriftKey ==
    []DriftTracksKey /\ [][ticks' # ticks => TickUsesDriftKey]_vars

\* space was pressed, a tick drifted with the car moving, space was released
\* and the next tick ran with the traction of a car that does not drift
C17_Witness ==
    /\ Ticked /\ ~movement.drift /\ ~physics.isDrifting
    /\ last.prevSmoke /\ ~last.smoke /\ ~last.drifting
    /\ last.velThrust # ZeroVec
    /\ last.velTraction = MultiplyScalar(last.velThrust, traction, Unit)
    /\ last.velTraction # MultiplyScalar(last.velThrust, driftDecay, Unit)

\* the number of updates that use up the lifetime at the smallest decay:
\* 1.0 / 0.02
LongestLife == InitialLifetime \div DecayBase

\* C18: a particle is out of the pool, faded out or evicted, once it has
\* lived through 50 calls of updateSmokeParticles(); so when every spawn is
\* at least 50 updates old, the pool is empty.
C18_GoneWithinFifty ==
    /\ \A i \in 1..Len(log) : Age(i) >= LongestLife => ~Active(i)
    /\ (\A i \in 1..Len(log) : Age(i) >= LongestLife) => smokeParticles = << >>

\* two particles of the smallest decay, 0.02, spawned one update apart: the
\* older has just been removed by its 50th update, the younger is in the
\* pool after 49
C18_Witness ==
    \E i, j \in 1..Len(log) :
        /\ log[i].decay = DecayBase /\ ~log[i].evicted
        /\ Age(i) = LongestLife /\ ~Active(i)
        /\ log[j].decay = DecayBase
        /\ Age(j) = LongestLife - 1 /\ Active(j)

=============================================================================
